---------------------------- MODULE Spec2Model ----------------------------
(***************************************************************************)
(* A model of src/main.rs: the charset builder, the sorted-slice           *)
(* disjointness test, the two parallel stages (candidate generation and    *)
(* uniqueness filtering, each a scoped pool of POOL_SIZE workers feeding   *)
(* an mpsc channel) and the merge that drains and sorts the result.        *)
(*                                                                         *)
(* A char is its code point (a natural number), a str or a Vec<char> is a  *)
(* sequence of code points.  A reference to a CharsetEntry is the index of *)
(* the entry in the list that owns it.                                     *)
(*                                                                         *)
(* Three specifications share the variables:                               *)
(*   SpecDisjoint  one call of is_disjoint, step by step                   *)
(*   SpecBuild     one call of generate_list_of_characters, step by step   *)
(*   Spec          main(): the whole pipeline with its worker tasks        *)
(***************************************************************************)
EXTENDS Naturals, Sequences, FiniteSets

VARIABLES
    dj,               \* the frame of a running is_disjoint call
    gen,              \* the frame of a running generate_list_of_characters call
    pc,               \* main's position
    words,            \* main: contents of words.txt
    states,           \* main: contents of states.txt
    word_charset,     \* main: Vec<CharsetEntry> of the words
    state_charset,    \* main: Vec<CharsetEntry> of the states
    disjoints,        \* channel of find_disjoint_words_async
    unique_disjoints, \* channel of find_unique_disjoints_async
    gen_tasks,        \* closures executed in find_disjoint_words_async's scope
    flt_tasks,        \* closures executed in find_unique_disjoints_async's scope
    disjoint_vec,     \* merge_disjoints: the vector being filled
    final_disjoints,  \* main: the vector returned by merge_disjoints
    stdout,           \* the lines printed, each <<state text, word text>>
    panicked          \* a worker's expect() on send failed

vars == <<dj, gen, pc, words, states, word_charset, state_charset, disjoints,
          unique_disjoints, gen_tasks, flt_tasks, disjoint_vec,
          final_disjoints, stdout, panicked>>

pipeVars == <<pc, words, states, word_charset, state_charset, disjoints,
              unique_disjoints, gen_tasks, flt_tasks, disjoint_vec,
              final_disjoints, stdout, panicked>>

---------------------------------------------------------------------------
(* Bounds of the model.                                                    *)

\* is_disjoint is run on sorted sequences over the chars 1..MaxChar
MaxChar == 4
\* ... of at most MaxLen chars
MaxLen == 3
\* generate_list_of_characters is run on texts of at most MaxText chars
MaxText == 4
\* main reads at most MaxStates lines of states.txt
MaxStates == 2
\* ... and at most MaxWords lines of words.txt
MaxWords == 2
\* ... with at most MaxPairs (state, word) combinations
MaxPairs == 4

\* const POOL_SIZE: u32 = 4;
POOL_SIZE == 4

\* the chars the source or the inputs name
SPACE == 32
NEWLINE == 10

---------------------------------------------------------------------------
(* Sequences.                                                              *)

Range(s) == {s[n] : n \in 1..Len(s)}

Count(s, x) == Cardinality({n \in 1..Len(s) : s[n] = x})

\* the sequences over S of length at most n
SeqsUpTo(S, n) == UNION {[1..m -> S] : m \in 0..n}

IsSorted(s) == \A n \in 1..(Len(s) - 1) : s[n] <= s[n + 1]

---------------------------------------------------------------------------
(* is_disjoint, lines 45-60.  The frame holds a, b, skip, the position i   *)
(* of the outer loop in a, and the inner iterator b.iter().skip(skip)      *)
(* .enumerate(): base is the value of skip the iterator was created with,  *)
(* index the number it yields next.                                        *)

DjIdle == [pc |-> "idle", a |-> <<>>, b |-> <<>>, skip |-> 0, i |-> 0,
           base |-> 0, index |-> 0]

\* let mut skip = 0; and the call itself
DjCall(a, b) == [pc |-> "outer", a |-> a, b |-> b, skip |-> 0, i |-> 0,
                 base |-> 0, index |-> 0]

SkipAfterFlipped(skip, index, i, j) == IF j > i THEN index ELSE skip

\* if let Less = j.cmp(i) { skip = index; }
SkipAfter(skip, index, i, j) == IF j < i THEN index ELSE skip

\* for i in a: the next element of a, or the end of the loop and `true`
DjOuter(f) ==
    IF f.i = Len(f.a)
    THEN [f EXCEPT !.pc = "true"]
    ELSE [f EXCEPT !.i = f.i + 1, !.base = f.skip, !.index = 0,
                   !.pc = "inner"]

\* for (index, j) in b.iter().skip(skip).enumerate(): one element of b
DjInner(f) ==
    IF f.base + f.index >= Len(f.b)
    THEN [f EXCEPT !.pc = "outer"]
    ELSE LET j == f.b[f.base + f.index + 1]
             i == f.a[f.i]
         IN  IF i = j
             THEN [f EXCEPT !.pc = "false"]
             ELSE [f EXCEPT !.skip = SkipAfter(f.skip, f.index, i, j),
                            !.index = f.index + 1]

DjStep(f) == IF f.pc = "outer" THEN DjOuter(f) ELSE DjInner(f)

\* the steps of a call up to its return (each frame is computed once: g is
\* the one next frame, r the one result)
RECURSIVE DjRun(_)
DjRun(f) ==
    IF f.pc \in {"true", "false"} THEN f
    ELSE CHOOSE r \in {DjRun(g) : g \in {DjStep(f)}} : TRUE

\* fn is_disjoint(a: &[char], b: &[char]) -> bool
is_disjoint(a, b) == DjRun(DjCall(a, b)).pc = "true"

---------------------------------------------------------------------------
(* generate_list_of_characters, lines 137-163.  The frame holds the text,  *)
(* the lines of words.lines(), the number n of lines taken, the current    *)
(* line (word), the number c of its chars taken, the Vec chars being       *)
(* filled and word_list.                                                   *)

RECURSIVE StrLinesFrom(_, _, _, _)
StrLinesFrom(text, n, cur, acc) ==
    IF n > Len(text)
    THEN IF cur = <<>> THEN acc ELSE Append(acc, cur)
    ELSE IF text[n] = NEWLINE
         THEN StrLinesFrom(text, n + 1, <<>>, Append(acc, cur))
         ELSE StrLinesFrom(text, n + 1, Append(cur, text[n]), acc)

\* words.lines(): the text between line feeds; the last line needs none
\* (texts hold no carriage return, which lines() would strip before a feed)
StrLines(text) == StrLinesFrom(text, 1, <<>>, <<>>)

\* chars.contains(&char)
Contains(chars, ch) == \E n \in 1..Len(chars) : chars[n] = ch

PushCharAlways(chars, ch) == IF ch # SPACE THEN Append(chars, ch) ELSE chars

\* if char != ' ' && !chars.contains(&char) { chars.push(char); }
PushChar(chars, ch) ==
    IF ch # SPACE /\ ~Contains(chars, ch) THEN Append(chars, ch) ELSE chars

\* one insertion of a stable ascending sort: x goes behind all elements <= x
InsertChar(s, x) ==
    LET k == Cardinality({n \in 1..Len(s) : s[n] <= x})
    IN  SubSeq(s, 1, k) \o <<x>> \o SubSeq(s, k + 1, Len(s))

RECURSIVE SortFrom(_, _, _)
SortFrom(s, n, acc) ==
    IF n > Len(s) THEN acc
    ELSE CHOOSE r \in {SortFrom(s, n + 1, g) : g \in {InsertChar(acc, s[n])}} :
             TRUE

SortCharsOmitted(chars) == chars

\* chars.sort();
SortChars(chars) == SortFrom(chars, 1, <<>>)

PushEntryUnlessBlank(word_list, word, chars) ==
    IF word = <<>> THEN word_list
    ELSE Append(word_list, [original |-> word, chars |-> chars])

\* word_list.push(CharsetEntry { original: word, chars: chars });
PushEntry(word_list, word, chars) ==
    Append(word_list, [original |-> word, chars |-> chars])

GenIdle == [pc |-> "idle", text |-> <<>>, lines |-> <<>>, n |-> 0,
            word |-> <<>>, c |-> 0, chars |-> <<>>, word_list |-> <<>>]

\* let lines = words.lines(); let mut word_list = ...;
GenCall(text) == [pc |-> "line", text |-> text, lines |-> StrLines(text),
                  n |-> 0, word |-> <<>>, c |-> 0, chars |-> <<>>,
                  word_list |-> <<>>]

\* for word in lines: the next line and its empty chars, or the return
GenLine(f) ==
    IF f.n = Len(f.lines)
    THEN [f EXCEPT !.pc = "done"]
    ELSE [f EXCEPT !.n = f.n + 1, !.word = f.lines[f.n + 1], !.c = 0,
                   !.chars = <<>>, !.pc = "char"]

\* for char in word.chars(): one char of the line
GenChar(f) ==
    IF f.c = Len(f.word)
    THEN [f EXCEPT !.pc = "push"]
    ELSE [f EXCEPT !.c = f.c + 1,
                   !.chars = PushChar(f.chars, f.word[f.c + 1])]

\* chars.sort(); word_list.push(...)
GenPush(f) ==
    [f EXCEPT !.word_list = PushEntry(f.word_list, f.word, SortChars(f.chars)),
              !.pc = "line"]

GenStep(f) ==
    IF f.pc = "line" THEN GenLine(f)
    ELSE IF f.pc = "char" THEN GenChar(f)
    ELSE GenPush(f)

RECURSIVE GenRun(_)
GenRun(f) ==
    IF f.pc = "done" THEN f
    ELSE CHOOSE r \in {GenRun(g) : g \in {GenStep(f)}} : TRUE

\* fn generate_list_of_characters<'a>(words: &'a str) -> Vec<CharsetEntry<'a>>
generate_list_of_characters(text) == GenRun(GenCall(text)).word_list

---------------------------------------------------------------------------
(* Channels (std::sync::mpsc::channel, lines 81 and 116): the queue of     *)
(* messages sent and not yet received, the number of live Senders, and     *)
(* whether the Receiver is alive.  A Comparisson is the pair of the        *)
(* indices of its state and its word.                                      *)

NoChannel == [queue |-> <<>>, senders |-> 0, receiver |-> FALSE]

NewChannelNoReceiver == [queue |-> <<>>, senders |-> 1, receiver |-> FALSE]

\* let (tx, rx) = channel();
NewChannel == [queue |-> <<>>, senders |-> 1, receiver |-> TRUE]

\* tx.clone()
CloneSender(ch) == [ch EXCEPT !.senders = ch.senders + 1]

DropSenderForgotten(ch) == ch

\* a Sender goes out of scope
DropSender(ch) == [ch EXCEPT !.senders = ch.senders - 1]

\* tx.send(msg): Ok, the message queued, while the Receiver lives
SendOk(ch) == ch.receiver

SendTwice(ch, msg) ==
    IF SendOk(ch) THEN [ch EXCEPT !.queue = Append(Append(ch.queue, msg), msg)]
    ELSE ch

SendSingleSlot(ch, msg) ==
    IF SendOk(ch) THEN [ch EXCEPT !.queue = <<msg>>] ELSE ch

Send(ch, msg) ==
    IF SendOk(ch) THEN [ch EXCEPT !.queue = Append(ch.queue, msg)] ELSE ch

\* the Receiver's iterator: a message is there
CanRecv(ch) == ch.queue # <<>>

\* the Receiver's iterator ends: nothing queued and every Sender dropped
Disconnected(ch) == ch.queue = <<>> /\ ch.senders = 0

Recv(ch) == [ch EXCEPT !.queue = Tail(ch.queue)]

---------------------------------------------------------------------------
(* The scoped pool (Pool::new(POOL_SIZE), pool.scoped, scope.execute): a   *)
(* task is queued by execute, started by an idle worker in the order of    *)
(* the executes, and done when its closure returns.                        *)

Running(tasks) == {t \in 1..Len(tasks) : tasks[t].status = "running"}

\* an idle worker takes the oldest job of the pool's queue
CanStart(tasks, t) ==
    /\ tasks[t].status = "queued"
    /\ \A u \in 1..(t - 1) : tasks[u].status # "queued"
    /\ Cardinality(Running(tasks)) < POOL_SIZE

AllFinishedUnjoined(tasks) == TRUE

\* pool.scoped returns once every job executed in the scope has finished
AllFinished(tasks) == \A t \in 1..Len(tasks) : tasks[t].status = "done"

---------------------------------------------------------------------------
(* The uniqueness test of find_unique_disjoints_async, lines 88-95.        *)

failNever(sts, wds, pair) == FALSE

failByEntry(sts, wds, pair) ==
    \E n \in 1..Len(sts) :
        /\ n # pair.state
        /\ is_disjoint(sts[n].chars, wds[pair.word].chars)

\* for state in states.iter() { if state.original != state_from_pair.original
\*     && is_disjoint(&state.chars, &word_from_pair.chars) { fail = true; .. } }
fail(sts, wds, pair) ==
    \E n \in 1..Len(sts) :
        /\ sts[n].original # sts[pair.state].original
        /\ is_disjoint(sts[n].chars, wds[pair.word].chars)

---------------------------------------------------------------------------
(* merge_disjoints' sort, line 71.                                         *)

RECURSIVE StrCmpFrom(_, _, _)
StrCmpFrom(x, y, n) ==
    IF n > Len(x) /\ n > Len(y) THEN "Equal"
    ELSE IF n > Len(x) THEN "Less"
    ELSE IF n > Len(y) THEN "Greater"
    ELSE IF x[n] < y[n] THEN "Less"
    ELSE IF x[n] > y[n] THEN "Greater"
    ELSE StrCmpFrom(x, y, n + 1)

\* str's cmp: lexicographic
StrCmp(x, y) == StrCmpFrom(x, y, 1)

CompareByWord(sts, wds, x, y) ==
    StrCmp(wds[x.word].original, wds[y.word].original)

\* |x, y| x.state.original.cmp(y.state.original)
Compare(sts, wds, x, y) ==
    StrCmp(sts[x.state].original, sts[y.state].original)

InsertPairDedup(sts, wds, v, x) ==
    LET k == Cardinality({n \in 1..Len(v) :
                              Compare(sts, wds, v[n], x) # "Greater"})
    IN  IF \E n \in 1..Len(v) : Compare(sts, wds, v[n], x) = "Equal"
        THEN v
        ELSE SubSeq(v, 1, k) \o <<x>> \o SubSeq(v, k + 1, Len(v))

InsertPairBeforeEqual(sts, wds, v, x) ==
    LET k == Cardinality({n \in 1..Len(v) :
                              Compare(sts, wds, v[n], x) = "Less"})
    IN  SubSeq(v, 1, k) \o <<x>> \o SubSeq(v, k + 1, Len(v))

\* one insertion of a stable sort: x goes behind all elements not greater
InsertPair(sts, wds, v, x) ==
    LET k == Cardinality({n \in 1..Len(v) :
                              Compare(sts, wds, v[n], x) # "Greater"})
    IN  SubSeq(v, 1, k) \o <<x>> \o SubSeq(v, k + 1, Len(v))

RECURSIVE SortByFrom(_, _, _, _, _)
SortByFrom(sts, wds, v, n, acc) ==
    IF n > Len(v) THEN acc
    ELSE CHOOSE r \in {SortByFrom(sts, wds, v, n + 1, g) :
                           g \in {InsertPair(sts, wds, acc, v[n])}} : TRUE

\* disjoint_vec.sort_by(...): a stable sort
SortBy(sts, wds, v) == SortByFrom(sts, wds, v, 1, <<>>)

---------------------------------------------------------------------------
(* SpecDisjoint: one call of is_disjoint on sorted slices.                 *)

SortedSlices == {s \in SeqsUpTo(1..MaxChar, MaxLen) : IsSorted(s)}

PipeIdle ==
    /\ pc = "idle"
    /\ words = <<>>
    /\ states = <<>>
    /\ word_charset = <<>>
    /\ state_charset = <<>>
    /\ disjoints = NoChannel
    /\ unique_disjoints = NoChannel
    /\ gen_tasks = <<>>
    /\ flt_tasks = <<>>
    /\ disjoint_vec = <<>>
    /\ final_disjoints = <<>>
    /\ stdout = <<>>
    /\ panicked = FALSE

InitDisjoint ==
    /\ \E a \in SortedSlices, b \in SortedSlices : dj = DjCall(a, b)
    /\ gen = GenIdle
    /\ PipeIdle

IsDisjointOuter ==
    /\ dj.pc = "outer"
    /\ dj' = DjOuter(dj)
    /\ UNCHANGED <<gen, pipeVars>>

IsDisjointInner ==
    /\ dj.pc = "inner"
    /\ dj' = DjInner(dj)
    /\ UNCHANGED <<gen, pipeVars>>

NextDisjoint == IsDisjointOuter \/ IsDisjointInner

SpecDisjoint == InitDisjoint /\ [][NextDisjoint]_vars

---------------------------------------------------------------------------
(* C1: on ascending slices a and b, empty ones included, is_disjoint       *)
(* returns true when a and b share no element and false when they share    *)
(* one.                                                                    *)
C1_IsDisjointCorrect ==
    /\ dj.pc = "true" => Range(dj.a) \cap Range(dj.b) = {}
    /\ dj.pc = "false" => Range(dj.a) \cap Range(dj.b) # {}
    /\ dj.pc # "idle" =>
          (is_disjoint(dj.a, dj.b) <=> Range(dj.a) \cap Range(dj.b) = {})

\* the scan resumed behind skipped elements of b and still met the shared one
C1_Witness ==
    /\ dj.pc = "false"
    /\ dj.base > 0
    /\ dj.i > 1

\* an empty b is answered true
C1_WitnessEmpty ==
    /\ dj.pc = "true"
    /\ dj.b = <<>>
    /\ dj.a # <<>>

(* C11: is_disjoint is symmetric: on ascending slices a and b the call     *)
(* on (a, b) returns what the call on (b, a) returns.                      *)
C11_Symmetric ==
    /\ dj.pc = "true" => is_disjoint(dj.b, dj.a)
    /\ dj.pc = "false" => ~is_disjoint(dj.b, dj.a)

\* a call on two different slices of different lengths that met a shared
\* element behind skipped ones
C11_Witness ==
    /\ dj.pc = "false"
    /\ Len(dj.a) # Len(dj.b)
    /\ dj.a[1] # dj.b[1]
    /\ dj.base > 0

(* C13: during one call of is_disjoint on sorted slices the scan offset    *)
(* skip never decreases: every step leaves it at or above its value.       *)
C13_SkipNeverDecreases == [][dj'.skip >= dj.skip]_vars

---------------------------------------------------------------------------
(* SpecBuild: one call of generate_list_of_characters on a text of spaces, *)
(* line feeds and the letters a and b.                                     *)

BuildChars == {SPACE, NEWLINE, 97, 98}

InitBuild ==
    /\ \E text \in SeqsUpTo(BuildChars, MaxText) : gen = GenCall(text)
    /\ dj = DjIdle
    /\ PipeIdle

GenerateLine ==
    /\ gen.pc = "line"
    /\ gen' = GenLine(gen)
    /\ UNCHANGED <<dj, pipeVars>>

GenerateChar ==
    /\ gen.pc = "char"
    /\ gen' = GenChar(gen)
    /\ UNCHANGED <<dj, pipeVars>>

GeneratePush ==
    /\ gen.pc = "push"
    /\ gen' = GenPush(gen)
    /\ UNCHANGED <<dj, pipeVars>>

NextBuild == GenerateLine \/ GenerateChar \/ GeneratePush

SpecBuild == InitBuild /\ [][NextBuild]_vars

\* the lines of a text, by the places of its line feeds: line k lies between
\* the (k-1)th and the kth feed; a text not ending in a feed has a last line
Feeds(text) == {p \in 1..Len(text) : text[p] = NEWLINE}

LineCount(text) ==
    Cardinality(Feeds(text))
        + (IF text # <<>> /\ text[Len(text)] # NEWLINE THEN 1 ELSE 0)

LineStart(text, k) ==
    IF k = 1 THEN 1
    ELSE 1 + CHOOSE p \in Feeds(text) :
                 Cardinality({q \in Feeds(text) : q <= p}) = k - 1

LineEnd(text, k) ==
    IF k > Cardinality(Feeds(text)) THEN Len(text)
    ELSE (CHOOSE p \in Feeds(text) :
              Cardinality({q \in Feeds(text) : q <= p}) = k) - 1

LineOf(text, k) == SubSeq(text, LineStart(text, k), LineEnd(text, k))

StrictlyAscending(s) == \A n \in 1..(Len(s) - 1) : s[n] < s[n + 1]

(* C8: the chars of every CharsetEntry built is strictly ascending and     *)
(* holds exactly the chars of its line other than the space.               *)
C8_CharsSortedDistinct ==
    \A n \in 1..Len(gen.word_list) :
        LET e == gen.word_list[n]
        IN  /\ StrictlyAscending(e.chars)
            /\ Range(e.chars) = Range(e.original) \ {SPACE}

\* an entry built from a line with a space, a repeated char and descending
\* chars
C8_Witness ==
    \E n \in 1..Len(gen.word_list) :
        LET e == gen.word_list[n]
        IN  /\ e.chars = <<97, 98>>
            /\ SPACE \in Range(e.original)
            /\ e.original[1] = 98
            /\ Count(e.original, 98) = 2

(* C9: generate_list_of_characters returns one entry per line of the text, *)
(* in the order of the lines, with original equal to the line; a blank     *)
(* line yields an entry with empty original and empty chars.               *)
C9_OneEntryPerLine ==
    /\ gen.pc # "idle" =>
          /\ Len(gen.word_list) <= LineCount(gen.text)
          /\ \A k \in 1..Len(gen.word_list) :
                /\ gen.word_list[k].original = LineOf(gen.text, k)
                /\ LineOf(gen.text, k) = <<>> =>
                       gen.word_list[k].chars = <<>>
    /\ gen.pc = "done" => Len(gen.word_list) = LineCount(gen.text)

\* a blank line between two others was kept
C9_Witness ==
    /\ gen.pc = "done"
    /\ Len(gen.word_list) = 3
    /\ gen.word_list[1].original # <<>>
    /\ gen.word_list[2] = [original |-> <<>>, chars |-> <<>>]
    /\ gen.word_list[3].original # <<>>

---------------------------------------------------------------------------
(* Spec: main().  The files hold lines of a few fixed words, each ended by *)
(* a line feed.                                                            *)

StateLines == {<<97, 98, 99>>, <<100, 101, 102>>, <<99, 32, 97, 98>>}

WordLines == {<<120, 121, 122>>, <<97, 98, 120>>, <<100, 120>>}

RECURSIVE FileOf(_)
FileOf(ls) ==
    IF ls = <<>> THEN <<>> ELSE Head(ls) \o <<NEWLINE>> \o FileOf(Tail(ls))

StateFiles == {FileOf(ls) : ls \in SeqsUpTo(StateLines, MaxStates)}

WordFiles == {FileOf(ls) : ls \in SeqsUpTo(WordLines, MaxWords)}

Init ==
    /\ pc = "start"
    /\ words \in WordFiles
    /\ states \in StateFiles
    /\ Len(StrLines(states)) * Len(StrLines(words)) <= MaxPairs
    /\ word_charset = <<>>
    /\ state_charset = <<>>
    /\ disjoints = NoChannel
    /\ unique_disjoints = NoChannel
    /\ gen_tasks = <<>>
    /\ flt_tasks = <<>>
    /\ disjoint_vec = <<>>
    /\ final_disjoints = <<>>
    /\ stdout = <<>>
    /\ panicked = FALSE
    /\ dj = DjIdle
    /\ gen = GenIdle

\* lines 23-27: both lists are built
BuildLists ==
    /\ pc = "start"
    /\ word_charset' = generate_list_of_characters(words)
    /\ state_charset' = generate_list_of_characters(states)
    /\ pc' = "find_disjoint_words"
    /\ UNCHANGED <<dj, gen, words, states, disjoints, unique_disjoints,
                   gen_tasks, flt_tasks, disjoint_vec, final_disjoints,
                   stdout, panicked>>

\* lines 29, 113-117: the call, its pool, its channel
FindDisjointWordsCall ==
    /\ pc = "find_disjoint_words"
    /\ disjoints' = NewChannel
    /\ pc' = "gen_execute"
    /\ UNCHANGED <<dj, gen, words, states, word_charset, state_charset,
                   unique_disjoints, gen_tasks, flt_tasks, disjoint_vec,
                   final_disjoints, stdout, panicked>>

\* lines 118-120: for state in states.iter() { tx.clone(); scope.execute(..) }
FindDisjointWordsExecute ==
    /\ pc = "gen_execute"
    /\ Len(gen_tasks) < Len(state_charset)
    /\ disjoints' = CloneSender(disjoints)
    /\ gen_tasks' = Append(gen_tasks, [state |-> Len(gen_tasks) + 1,
                                       word |-> 0, status |-> "queued"])
    /\ UNCHANGED <<dj, gen, pc, words, states, word_charset, state_charset,
                   unique_disjoints, flt_tasks, disjoint_vec,
                   final_disjoints, stdout, panicked>>

\* lines 132-134: the scope joins, tx is dropped, rx returned
FindDisjointWordsJoin ==
    /\ pc = "gen_execute"
    /\ Len(gen_tasks) = Len(state_charset)
    /\ AllFinished(gen_tasks)
    /\ disjoints' = DropSender(disjoints)
    /\ pc' = "find_unique_disjoints"
    /\ UNCHANGED <<dj, gen, words, states, word_charset, state_charset,
                   unique_disjoints, gen_tasks, flt_tasks, disjoint_vec,
                   final_disjoints, stdout, panicked>>

\* a worker of the first pool takes the closure of lines 120-130
GenTaskStart(t) ==
    /\ ~panicked
    /\ CanStart(gen_tasks, t)
    /\ gen_tasks' = [gen_tasks EXCEPT ![t].status = "running"]
    /\ UNCHANGED <<dj, gen, pc, words, states, word_charset, state_charset,
                   disjoints, unique_disjoints, flt_tasks, disjoint_vec,
                   final_disjoints, stdout, panicked>>

\* lines 121-129: one word of the closure's loop
GenTaskWord(t) ==
    /\ ~panicked
    /\ gen_tasks[t].status = "running"
    /\ gen_tasks[t].word < Len(word_charset)
    /\ LET w == gen_tasks[t].word + 1
           st == gen_tasks[t].state
       IN  /\ gen_tasks' = [gen_tasks EXCEPT ![t].word = w]
           /\ IF is_disjoint(state_charset[st].chars, word_charset[w].chars)
              THEN /\ disjoints' = Send(disjoints, [word |-> w, state |-> st])
                   /\ panicked' = ~SendOk(disjoints)
              ELSE UNCHANGED <<disjoints, panicked>>
    /\ UNCHANGED <<dj, gen, pc, words, states, word_charset, state_charset,
                   unique_disjoints, flt_tasks, disjoint_vec,
                   final_disjoints, stdout>>

\* line 130: the closure returns and drops its tx
GenTaskEnd(t) ==
    /\ ~panicked
    /\ gen_tasks[t].status = "running"
    /\ gen_tasks[t].word = Len(word_charset)
    /\ gen_tasks' = [gen_tasks EXCEPT ![t].status = "done"]
    /\ disjoints' = DropSender(disjoints)
    /\ UNCHANGED <<dj, gen, pc, words, states, word_charset, state_charset,
                   unique_disjoints, flt_tasks, disjoint_vec,
                   final_disjoints, stdout, panicked>>

\* lines 30, 78-82: the call, its pool, its channel
FindUniqueDisjointsCall ==
    /\ pc = "find_unique_disjoints"
    /\ unique_disjoints' = NewChannel
    /\ pc' = "flt_execute"
    /\ UNCHANGED <<dj, gen, words, states, word_charset, state_charset,
                   disjoints, gen_tasks, flt_tasks, disjoint_vec,
                   final_disjoints, stdout, panicked>>

\* lines 83-87: for word_pair in disjoints.iter() { tx.clone(); execute }
FindUniqueDisjointsExecute ==
    /\ pc = "flt_execute"
    /\ CanRecv(disjoints)
    /\ disjoints' = Recv(disjoints)
    /\ unique_disjoints' = CloneSender(unique_disjoints)
    /\ flt_tasks' = Append(flt_tasks, [pair |-> Head(disjoints.queue),
                                       status |-> "queued"])
    /\ UNCHANGED <<dj, gen, pc, words, states, word_charset, state_charset,
                   gen_tasks, disjoint_vec, final_disjoints, stdout,
                   panicked>>

\* lines 104-107: the iterator ends, the scope joins, tx is dropped
FindUniqueDisjointsJoin ==
    /\ pc = "flt_execute"
    /\ Disconnected(disjoints)
    /\ AllFinished(flt_tasks)
    /\ unique_disjoints' = DropSender(unique_disjoints)
    /\ pc' = "merge_disjoints"
    /\ UNCHANGED <<dj, gen, words, states, word_charset, state_charset,
                   disjoints, gen_tasks, flt_tasks, disjoint_vec,
                   final_disjoints, stdout, panicked>>

\* a worker of the second pool takes the closure of lines 87-103
FltTaskStart(t) ==
    /\ ~panicked
    /\ CanStart(flt_tasks, t)
    /\ flt_tasks' = [flt_tasks EXCEPT ![t].status = "running"]
    /\ UNCHANGED <<dj, gen, pc, words, states, word_charset, state_charset,
                   disjoints, unique_disjoints, gen_tasks, disjoint_vec,
                   final_disjoints, stdout, panicked>>

FltTaskRunFirstState(t) ==
    /\ ~panicked
    /\ flt_tasks[t].status = "running"
    /\ flt_tasks' = [flt_tasks EXCEPT ![t].status = "done"]
    /\ IF ~fail(state_charset, word_charset, flt_tasks[t].pair)
       THEN /\ unique_disjoints' =
                   DropSender(Send(unique_disjoints,
                                   [flt_tasks[t].pair EXCEPT !.state = 1]))
            /\ panicked' = ~SendOk(unique_disjoints)
       ELSE /\ unique_disjoints' = DropSender(unique_disjoints)
            /\ UNCHANGED panicked
    /\ UNCHANGED <<dj, gen, pc, words, states, word_charset, state_charset,
                   disjoints, gen_tasks, disjoint_vec, final_disjoints,
                   stdout>>

\* lines 88-103: the scan of the states, the send, the closure's return
FltTaskRun(t) ==
    /\ ~panicked
    /\ flt_tasks[t].status = "running"
    /\ flt_tasks' = [flt_tasks EXCEPT ![t].status = "done"]
    /\ IF ~fail(state_charset, word_charset, flt_tasks[t].pair)
       THEN /\ unique_disjoints' =
                   DropSender(Send(unique_disjoints, flt_tasks[t].pair))
            /\ panicked' = ~SendOk(unique_disjoints)
       ELSE /\ unique_disjoints' = DropSender(unique_disjoints)
            /\ UNCHANGED panicked
    /\ UNCHANGED <<dj, gen, pc, words, states, word_charset, state_charset,
                   disjoints, gen_tasks, disjoint_vec, final_disjoints,
                   stdout>>

\* lines 67-69: for disjoint in disjoints { disjoint_vec.push(disjoint); }
MergeDisjointsPush ==
    /\ pc = "merge_disjoints"
    /\ CanRecv(unique_disjoints)
    /\ unique_disjoints' = Recv(unique_disjoints)
    /\ disjoint_vec' = Append(disjoint_vec, Head(unique_disjoints.queue))
    /\ UNCHANGED <<dj, gen, pc, words, states, word_charset, state_charset,
                   disjoints, gen_tasks, flt_tasks, final_disjoints, stdout,
                   panicked>>

MergeDisjointsSortClobber ==
    /\ pc = "merge_disjoints"
    /\ Disconnected(unique_disjoints)
    /\ final_disjoints' = SortBy(state_charset, word_charset, disjoint_vec)
    /\ state_charset' = [n \in 1..Len(state_charset) |->
                            [state_charset[n] EXCEPT !.chars = <<>>]]
    /\ pc' = "print"
    /\ UNCHANGED <<dj, gen, words, states, word_charset,
                   disjoints, unique_disjoints, gen_tasks, flt_tasks,
                   disjoint_vec, stdout, panicked>>

\* lines 71-72, 32: the iterator ends, the vector is sorted and returned
MergeDisjointsSort ==
    /\ pc = "merge_disjoints"
    /\ Disconnected(unique_disjoints)
    /\ final_disjoints' = SortBy(state_charset, word_charset, disjoint_vec)
    /\ pc' = "print"
    /\ UNCHANGED <<dj, gen, words, states, word_charset, state_charset,
                   disjoints, unique_disjoints, gen_tasks, flt_tasks,
                   disjoint_vec, stdout, panicked>>

\* lines 34-38: println!("{} => {}", state, word)
PrintPair ==
    /\ pc = "print"
    /\ Len(stdout) < Len(final_disjoints)
    /\ LET p == final_disjoints[Len(stdout) + 1]
       IN  stdout' = Append(stdout, <<state_charset[p.state].original,
                                      word_charset[p.word].original>>)
    /\ UNCHANGED <<dj, gen, pc, words, states, word_charset, state_charset,
                   disjoints, unique_disjoints, gen_tasks, flt_tasks,
                   disjoint_vec, final_disjoints, panicked>>

\* lines 39-40: main returns and its Receivers are dropped
MainReturn ==
    /\ pc = "print"
    /\ Len(stdout) = Len(final_disjoints)
    /\ pc' = "done"
    /\ disjoints' = [disjoints EXCEPT !.receiver = FALSE]
    /\ unique_disjoints' = [unique_disjoints EXCEPT !.receiver = FALSE]
    /\ UNCHANGED <<dj, gen, words, states, word_charset, state_charset,
                   gen_tasks, flt_tasks, disjoint_vec, final_disjoints,
                   stdout, panicked>>

Next ==
    \/ BuildLists
    \/ FindDisjointWordsCall
    \/ FindDisjointWordsExecute
    \/ FindDisjointWordsJoin
    \/ \E t \in 1..Len(gen_tasks) : GenTaskStart(t)
    \/ \E t \in 1..Len(gen_tasks) : GenTaskWord(t)
    \/ \E t \in 1..Len(gen_tasks) : GenTaskEnd(t)
    \/ FindUniqueDisjointsCall
    \/ FindUniqueDisjointsExecute
    \/ FindUniqueDisjointsJoin
    \/ \E t \in 1..Len(flt_tasks) : FltTaskStart(t)
    \/ \E t \in 1..Len(flt_tasks) : FltTaskRun(t)
    \/ MergeDisjointsPush
    \/ MergeDisjointsSort
    \/ PrintPair
    \/ MainReturn

Spec == Init /\ [][Next]_vars

\* the steps of main's thread
MainThread ==
    \/ BuildLists
    \/ FindDisjointWordsCall
    \/ FindDisjointWordsExecute
    \/ FindDisjointWordsJoin
    \/ FindUniqueDisjointsCall
    \/ FindUniqueDisjointsExecute
    \/ FindUniqueDisjointsJoin
    \/ MergeDisjointsPush
    \/ MergeDisjointsSort
    \/ PrintPair
    \/ MainReturn

\* the steps of the workers of the first pool
GenWorkers ==
    \E t \in 1..Len(gen_tasks) :
        GenTaskStart(t) \/ GenTaskWord(t) \/ GenTaskEnd(t)

\* the steps of the workers of the second pool
FltWorkers ==
    \E t \in 1..Len(flt_tasks) : FltTaskStart(t) \/ FltTaskRun(t)

\* main's thread and the workers of the pools are threads of the system:
\* a thread that can take a step takes one
LiveSpec ==
    Spec /\ WF_vars(MainThread) /\ WF_vars(GenWorkers) /\ WF_vars(FltWorkers)

---------------------------------------------------------------------------
(* What the claims about main() speak of.                                  *)

\* the two charsets share no char
Apart(s, w) ==
    Range(state_charset[s].chars) \cap Range(word_charset[w].chars) = {}

Pairs == {[word |-> w, state |-> s] : s \in 1..Len(state_charset),
                                      w \in 1..Len(word_charset)}

EveryTaskDone(tasks) == \A t \in 1..Len(tasks) : tasks[t].status = "done"

\* x <= y in the lexicographic order
LexLeq(x, y) ==
    \/ Len(x) <= Len(y) /\ \A n \in 1..Len(x) : x[n] = y[n]
    \/ \E k \in 1..Len(x) :
          /\ k <= Len(y)
          /\ \A n \in 1..(k - 1) : x[n] = y[n]
          /\ x[k] < y[k]

\* The run in which every task runs alone, in the order of its execute:
\* the candidates state by state and word by word, the filter in that order.
RECURSIVE CandidatesFrom(_, _, _, _)
CandidatesFrom(sts, wds, k, acc) ==
    IF k > Len(sts) * Len(wds) THEN acc
    ELSE LET s == ((k - 1) \div Len(wds)) + 1
             w == ((k - 1) % Len(wds)) + 1
         IN  CandidatesFrom(sts, wds, k + 1,
                 IF is_disjoint(sts[s].chars, wds[w].chars)
                 THEN Append(acc, [word |-> w, state |-> s]) ELSE acc)

SequentialResult(sts, wds) ==
    LET Keep(p) == ~fail(sts, wds, p)
    IN  SortBy(sts, wds,
               SelectSeq(CandidatesFrom(sts, wds, 1, <<>>), Keep))

TextOf(sts, wds, v) ==
    [n \in 1..Len(v) |-> <<sts[v[n].state].original, wds[v[n].word].original>>]

\* a list of entries in the ascending order of their lines
RECURSIVE LinesSorted(_, _)
LinesSorted(list, acc) ==
    IF list = <<>> THEN acc
    ELSE LET e == Head(list)
             k == Cardinality({n \in 1..Len(acc) :
                                  LexLeq(acc[n].original, e.original)})
         IN  LinesSorted(Tail(list),
                 SubSeq(acc, 1, k) \o <<e>> \o SubSeq(acc, k + 1, Len(acc)))

LineABC == <<97, 98, 99>>
LineDEF == <<100, 101, 102>>
LineXYZ == <<120, 121, 122>>
LineABX == <<97, 98, 120>>

(* C2 as claimed: a pair (state, word) is in the final result only if that *)
(* state entry is the only entry of the state list whose charset is        *)
(* disjoint from the word's.                                               *)
C2_OnlyDisjointEntry ==
    \A n \in 1..Len(final_disjoints) :
        LET p == final_disjoints[n]
        IN  \A s \in 1..Len(state_charset) :
                Apart(s, p.word) <=> s = p.state

(* C2 as amended: a pair (state, word) is in the final result only if the  *)
(* state's charset is disjoint from the word's and no state entry whose    *)
(* original text differs from that state's has a charset disjoint from the *)
(* word's; entries with the same text do not count as other states.        *)
C2_OnlyDisjointText ==
    \A n \in 1..Len(final_disjoints) :
        LET p == final_disjoints[n]
        IN  /\ Apart(p.state, p.word)
            /\ \A s \in 1..Len(state_charset) :
                  state_charset[s].original # state_charset[p.state].original
                      => ~Apart(s, p.word)

\* a pair of the result whose state has a twin entry, of the same text and
\* so as disjoint from the word as the state itself
C2_Witness ==
    /\ pc = "done"
    /\ \E n \in 1..Len(final_disjoints), s \in 1..Len(state_charset) :
          /\ s # final_disjoints[n].state
          /\ state_charset[s].original =
                 state_charset[final_disjoints[n].state].original
          /\ Apart(s, final_disjoints[n].word)

(* C3: once find_unique_disjoints_async has joined, its channel holds a    *)
(* candidate pair exactly once if no state of another original text has a  *)
(* charset disjoint from the word's, and not at all otherwise, and nothing *)
(* but candidates; for the states abc, def and the words xyz, abx the      *)
(* final result is the single pair (def, abx).                             *)
C3_FilterOutput ==
    /\ (pc = "merge_disjoints" /\ disjoint_vec = <<>>) =>
          /\ \A t \in 1..Len(flt_tasks) :
                LET p == flt_tasks[t].pair
                    kept == \A s \in 1..Len(state_charset) :
                                state_charset[s].original
                                        # state_charset[p.state].original
                                    => ~Apart(s, p.word)
                IN  Count(unique_disjoints.queue, p) = IF kept THEN 1 ELSE 0
          /\ \A n \in 1..Len(unique_disjoints.queue) :
                \E t \in 1..Len(flt_tasks) :
                    flt_tasks[t].pair = unique_disjoints.queue[n]
    /\ (pc = "done" /\ states = FileOf(<<LineABC, LineDEF>>)
                    /\ words = FileOf(<<LineXYZ, LineABX>>)) =>
          /\ final_disjoints = <<[word |-> 2, state |-> 2]>>
          /\ stdout = <<<<LineDEF, LineABX>>>>

\* the example has run: three candidates went in, one pair came out
C3_Witness ==
    /\ pc = "merge_disjoints"
    /\ disjoint_vec = <<>>
    /\ states = FileOf(<<LineABC, LineDEF>>)
    /\ words = FileOf(<<LineXYZ, LineABX>>)
    /\ Len(flt_tasks) = 3
    /\ Len(unique_disjoints.queue) = 1

(* C4: once find_disjoint_words_async has joined, whatever the             *)
(* interleaving of its tasks, its channel holds each (state entry, word    *)
(* entry) combination exactly once when the two charsets are disjoint and  *)
(* never when they share a char.                                           *)
C4_CandidatesOnce ==
    pc = "find_unique_disjoints" =>
        /\ \A p \in Pairs :
              Count(disjoints.queue, p) =
                  IF Apart(p.state, p.word) THEN 1 ELSE 0
        /\ Range(disjoints.queue) \subseteq Pairs

\* the second state's task sent before the first's, and one combination
\* shares a char
C4_Witness ==
    /\ pc = "find_unique_disjoints"
    /\ Len(disjoints.queue) >= 2
    /\ disjoints.queue[1].state = 2
    /\ \E p \in Pairs : ~Apart(p.state, p.word)

(* C5: for fixed lists, the sequence of pairs merge_disjoints returns is   *)
(* the same for every interleaving of the tasks of both stages: what is    *)
(* printed is what the run prints in which the tasks run one after the     *)
(* other.                                                                  *)
C5_SameForEveryInterleaving ==
    pc = "done" =>
        stdout = TextOf(state_charset, word_charset,
                        SequentialResult(state_charset, word_charset))

(* C6: permuting the lines of the state list or of the word list does not  *)
(* change the final sequence of (state text, word text) pairs: the output  *)
(* is that of the lists with their lines in ascending order.               *)
C6_SameForEveryLineOrder ==
    pc = "done" =>
        LET sts == LinesSorted(state_charset, <<>>)
            wds == LinesSorted(word_charset, <<>>)
        IN  stdout = TextOf(sts, wds, SequentialResult(sts, wds))

(* C7: the sequence merge_disjoints returns is ascending by the state's    *)
(* original text: of two consecutive pairs, the first's is <= the second's *)
(* in the lexicographic order.                                             *)
C7_SortedByState ==
    \A n \in 1..(Len(final_disjoints) - 1) :
        LexLeq(state_charset[final_disjoints[n].state].original,
               state_charset[final_disjoints[n + 1].state].original)

\* two pairs of different states that arrived in descending order
C7_Witness ==
    /\ pc = "done"
    /\ Len(final_disjoints) = 2
    /\ final_disjoints[1].state # final_disjoints[2].state
    /\ disjoint_vec = <<final_disjoints[2], final_disjoints[1]>>

(* C10: no uniqueness-filter task exists and no candidate is consumed      *)
(* before every candidate-generator task has finished, and merge_disjoints *)
(* receives no pair before every candidate is consumed and every           *)
(* uniqueness-filter task has finished.                                    *)
C10_StagesJoin ==
    /\ (flt_tasks # <<>> \/ pc \in {"find_unique_disjoints", "flt_execute"})
          => /\ Len(gen_tasks) = Len(state_charset)
             /\ EveryTaskDone(gen_tasks)
    /\ (disjoint_vec # <<>> \/ pc = "merge_disjoints")
          => /\ disjoints.queue = <<>>
             /\ EveryTaskDone(flt_tasks)

\* the merge has received a pair after two tasks of each stage
C10_Witness ==
    /\ pc = "merge_disjoints"
    /\ disjoint_vec # <<>>
    /\ Len(gen_tasks) = 2
    /\ Len(flt_tasks) >= 2

(* C12: from the moment both lists are built to the end of the run, no     *)
(* step of the candidate generator, the uniqueness filter or the merger    *)
(* changes a CharsetEntry (original or chars) or the length or order of    *)
(* either list, nor the texts the entries borrow from.                     *)
C12_ListsNeverMutated ==
    [][pc # "start" =>
          /\ word_charset' = word_charset
          /\ state_charset' = state_charset
          /\ words' = words
          /\ states' = states]_vars

\* a run over two states and two words that ended with a result
C12_Witness ==
    /\ pc = "done"
    /\ Len(state_charset) = 2
    /\ Len(word_charset) = 2
    /\ final_disjoints # <<>>

(* C14: the sequence merge_disjoints returns is a permutation of the pairs *)
(* sent on the uniqueness filter's channel: each receive moves one pair    *)
(* from the channel to the vector, the sort keeps every pair of the vector *)
(* exactly as often as it is there, and the result is not changed after;   *)
(* also with state entries of identical original text.                     *)
C14_MergeKeepsEveryPair ==
    [][/\ pc = "merge_disjoints" =>
             LET held == IF pc' = "print" THEN final_disjoints'
                         ELSE disjoint_vec'
             IN  /\ Len(unique_disjoints.queue') + Len(held)
                        = Len(unique_disjoints.queue) + Len(disjoint_vec)
                 /\ \A p \in Pairs :
                       Count(unique_disjoints.queue', p) + Count(held, p)
                           = Count(unique_disjoints.queue, p)
                                 + Count(disjoint_vec, p)
       /\ pc \in {"print", "done"} => final_disjoints' = final_disjoints
      ]_vars

\* the result holds two pairs whose states are two entries of the same text
C14_Witness ==
    /\ pc = "done"
    /\ Len(final_disjoints) = 2
    /\ final_disjoints[1].state # final_disjoints[2].state
    /\ state_charset[final_disjoints[1].state].original
           = state_charset[final_disjoints[2].state].original

(* C15 as claimed: in the sequence merge_disjoints returns, no two pairs   *)
(* have the same state original text.                                      *)
C15_OnePairPerStateText ==
    \A m \in 1..Len(final_disjoints), n \in 1..Len(final_disjoints) :
        m # n => state_charset[final_disjoints[m].state].original
                     # state_charset[final_disjoints[n].state].original

(* C15 as amended: in the sequence merge_disjoints returns, no two pairs   *)
(* have both the same state entry and the same word entry; pairs with the  *)
(* same state original text do occur, one state being paired with several  *)
(* words.                                                                  *)
C15_NoPairTwice ==
    \A m \in 1..Len(final_disjoints), n \in 1..Len(final_disjoints) :
        m # n => final_disjoints[m] # final_disjoints[n]

\* one state entry paired with two words
C15_Witness ==
    /\ pc = "done"
    /\ Len(final_disjoints) = 2
    /\ final_disjoints[1].state = final_disjoints[2].state
    /\ final_disjoints[1].word # final_disjoints[2].word

(* C16: the sort of merge_disjoints is stable: two pairs of equal state    *)
(* original text stand in the result in the order in which they were      *)
(* received from the channel.                                              *)
C16_SortStable ==
    pc \in {"print", "done"} =>
        \A m \in 1..Len(disjoint_vec), n \in 1..Len(disjoint_vec) :
            (/\ m < n
             /\ state_charset[disjoint_vec[m].state].original
                    = state_charset[disjoint_vec[n].state].original)
            => \E k \in 1..Len(final_disjoints), l \in 1..Len(final_disjoints) :
                   /\ k < l
                   /\ final_disjoints[k] = disjoint_vec[m]
                   /\ final_disjoints[l] = disjoint_vec[n]

\* two pairs of one state, the second word's received first and kept first
C16_Witness ==
    /\ pc = "done"
    /\ Len(disjoint_vec) = 2
    /\ disjoint_vec[1].state = disjoint_vec[2].state
    /\ disjoint_vec[1].word = 2
    /\ disjoint_vec[2].word = 1
    /\ final_disjoints[1].word = 2

(* C17: a send on a result channel never fails in either stage: whenever a *)
(* task that may still send exists, the Receiver of its channel is alive,  *)
(* and no expect() on a send has panicked.                                 *)
C17_SendNeverFails ==
    /\ ~panicked
    /\ (\E t \in 1..Len(gen_tasks) : gen_tasks[t].status # "done")
          => disjoints.receiver
    /\ (\E t \in 1..Len(flt_tasks) : flt_tasks[t].status # "done")
          => unique_disjoints.receiver

\* the second channel took a send while another filter task was running
C17_Witness ==
    /\ unique_disjoints.queue # <<>>
    /\ \E t \in 1..Len(flt_tasks) : flt_tasks[t].status = "running"
    /\ Len(gen_tasks) = 2

(* C19: in the final result a word entry is never paired with two states   *)
(* of different original text.                                             *)
C19_OneStateTextPerWord ==
    \A m \in 1..Len(final_disjoints), n \in 1..Len(final_disjoints) :
        final_disjoints[m].word = final_disjoints[n].word
            => state_charset[final_disjoints[m].state].original
                   = state_charset[final_disjoints[n].state].original

\* one word entry paired with two state entries, which have one text
C19_Witness ==
    /\ pc = "done"
    /\ Len(final_disjoints) = 2
    /\ final_disjoints[1].word = final_disjoints[2].word
    /\ final_disjoints[1].state # final_disjoints[2].state

(* C20: every pair the uniqueness filter sent is a candidate it received,  *)
(* with the same state entry and word entry, sent at most once for each    *)
(* finished task of that candidate; and every pair of the final result has *)
(* a state charset and a word charset that share no char.                  *)
C20_FilterSendsCandidates ==
    /\ \A p \in Range(unique_disjoints.queue) \cup Range(disjoint_vec) :
          Count(unique_disjoints.queue, p) + Count(disjoint_vec, p)
              <= Cardinality({t \in 1..Len(flt_tasks) :
                                 /\ flt_tasks[t].pair = p
                                 /\ flt_tasks[t].status = "done"})
    /\ \A n \in 1..Len(final_disjoints) :
          Apart(final_disjoints[n].state, final_disjoints[n].word)

\* the filter kept one candidate and discarded others
C20_Witness ==
    /\ pc = "merge_disjoints"
    /\ Len(unique_disjoints.queue) = 1
    /\ Len(flt_tasks) = 3
    /\ unique_disjoints.queue[1].state = 2

(* C18: for finite lists and fairly scheduled workers the run terminates:  *)
(* every Sender of a channel, the one the stage function holds included,   *)
(* is dropped before the channel is drained, so the filter's iteration     *)
(* over the candidates and the merger's over the filtered pairs end, and   *)
(* main returns.                                                           *)
C18_Terminates ==
    /\ [](pc = "flt_execute" => disjoints.senders = 0)
    /\ [](pc = "merge_disjoints" => unique_disjoints.senders = 0)
    /\ <>(pc = "done")

\* main returned after both drains had pairs to take
C18_Witness ==
    /\ pc = "done"
    /\ Len(flt_tasks) = 3
    /\ Len(disjoint_vec) = 1
    /\ disjoints.senders = 0
    /\ unique_disjoints.senders = 0

=============================================================================
